---- MODULE Spec2Model ----
(***************************************************************************)
(* A model of repellet's execution engine (src/src/lib.rs): ReplContext's  *)
(* read_loop / read / read_with_command / execute_command, the panic       *)
(* boundary (catch_unwind), the ReplError taxonomy and                     *)
(* default_error_handler.                                                  *)
(*                                                                         *)
(* The grammar engine (clap) is modelled for the schema of                 *)
(* src/examples/simple.rs (enum SimpleCli { Test { name }, Clear, Panic }),*)
(* with one-letter command names so that lines can be enumerated           *)
(* character by character: "t" = test, "c" = clear, "p" = panic,           *)
(* "h" = help (the subcommand clap adds on build), and "x" = a subcommand  *)
(* that is not part of SimpleCli and that only a handler can add to the    *)
(* grammar it is lent through ExecutionContext.command.                    *)
(***************************************************************************)
EXTENDS Integers, Sequences, FiniteSets, TLC

\* ---------------------------------------------------------------- bounds

\* Longest line the line source delivers, in characters.
MaxLen == 3

\* Number of read_line calls in one run (the loop itself is unbounded).
MaxReads == 3

\* ------------------------------------------------------- inputs and values

Alphabet == {" ", "t", "c", "p", "h", "x"}

RECURSIVE LinesUpTo(_)
LinesUpTo(n) ==
    IF n = 0 THEN {<< >>}
    ELSE LET shorter == LinesUpTo(n - 1)
         IN  shorter \cup {Append(l, ch) : l \in {s \in shorter : Len(s) = n - 1}, ch \in Alphabet}

Lines == LinesUpTo(MaxLen)

\* What a handler returns as its typed error, what it panics with, and what
\* the line source fails with.
ExecErrors == {"e1", "e2"}
Payloads == {"p1", "p2"}
IoCauses == {"io1"}

NoPayload == "none"

\* ------------------------------------------------------------ ReplError

ReplError(variant, data) == [variant |-> variant, data |-> data]

Interrupt == ReplError("Interrupt", "")
EOF == ReplError("EOF", "")
Clap(kind) == ReplError("Clap", kind)
Parse(kind) == ReplError("Parse", kind)
Panic(payload) == ReplError("Panic", payload)
Io(cause) == ReplError("Io", cause)
ExecutionError(e) == ReplError("ExecutionError", e)

NoError == ReplError("none", "")

\* Result<(), ReplError<Err>>
Ok == [ok |-> TRUE, err |-> NoError]
Err(e) == [ok |-> FALSE, err |-> e]
NoResult == [ok |-> FALSE, err |-> NoError]

\* clap::error::ErrorKind, the kinds the modelled grammar produces
HelpKinds == {"DisplayHelp", "DisplayVersion", "DisplayHelpOnMissingArgumentOrSubcommand"}

ErrorKinds == HelpKinds \cup
    {"InvalidSubcommand", "MissingRequiredArgument", "UnknownArgument",
     "MissingSubcommand"}

\* Every value of ReplError<Err> within the bounds.
ReplErrors ==
    {Interrupt, EOF}
    \cup {Clap(k) : k \in ErrorKinds}
    \cup {Parse(k) : k \in ErrorKinds}
    \cup {Panic(p) : p \in Payloads}
    \cup {Io(c) : c \in IoCauses}
    \cup {ExecutionError(e) : e \in ExecErrors}

\* -------------------------------------------------------- grammar (clap)

\* The subcommands of SimpleCli, and the subcommand a handler may add.
SchemaCommands == {"t", "c", "p"}
HelpCommand == "h"
ExtraCommand == "x"

NoCommand == [name |-> "none", multicall |-> FALSE, subcommands |-> {}]

\* Command::default(), what std::mem::take leaves behind a &mut Command.
DefaultCommand == [name |-> "", multicall |-> FALSE, subcommands |-> {}]

\* C::command().multicall(true), then build(): the canonical template.
New == [name |-> "simple", multicall |-> TRUE,
        subcommands |-> SchemaCommands \cup {HelpCommand}]

\* char::is_whitespace on the alphabet
IsWhitespace(ch) == ch = " "

\* str::split_whitespace: the maximal runs of non-whitespace characters.
RECURSIVE SplitFrom(_, _, _, _)
SplitFrom(line, i, word, acc) ==
    IF i > Len(line)
    THEN IF word = << >> THEN acc ELSE Append(acc, word)
    ELSE IF IsWhitespace(line[i])
         THEN SplitFrom(line, i + 1, << >>,
                        IF word = << >> THEN acc ELSE Append(acc, word))
         ELSE SplitFrom(line, i + 1, Append(word, line[i]), acc)

SplitWhitespace(line) == SplitFrom(line, 1, << >>, << >>)

\* str::is_empty
IsEmpty(line) == Len(line) = 0

NoMatches == [subcommand |-> "none", args |-> << >>]

MatchOk(cmd, sub, args) ==
    [ok |-> TRUE, matches |-> [subcommand |-> sub, args |-> args],
     kind |-> "none", command |-> cmd]

MatchErr(cmd, kind) ==
    [ok |-> FALSE, matches |-> NoMatches, kind |-> kind, command |-> cmd]

\* A token that is a one-letter word names that letter's command.
WordName(word) == IF Len(word) = 1 THEN word[1] ELSE "unknown"

\* Command::try_get_matches_from_mut on a command that is not multicall (the
\* default command, with whatever subcommands were added to it): the first
\* token is the binary name, the rest are the arguments; no subcommand is
\* required.
MatchPlain(cmd, tokens) ==
    LET rest == IF tokens = << >> THEN << >> ELSE Tail(tokens)
    IN  IF rest = << >> THEN MatchOk(cmd, "none", << >>)
        ELSE IF WordName(rest[1]) \in cmd.subcommands /\ Len(rest) = 1
        THEN MatchOk(cmd, WordName(rest[1]), << >>)
        ELSE MatchErr(cmd, "UnknownArgument")

\* Command::try_get_matches_from_mut on a multicall command: the first token,
\* when there is one, is the applet name, and the command's own name is
\* cleared before parsing; with no token the required subcommand is missing
\* and the help is displayed as an error.
TryGetMatchesFromMut(cmd, tokens) ==
    IF ~cmd.multicall
    THEN MatchPlain(cmd, tokens)
    ELSE IF tokens = << >>
    THEN MatchErr(cmd, "DisplayHelpOnMissingArgumentOrSubcommand")
    ELSE LET applet  == [cmd EXCEPT !.name = ""]
             sub     == WordName(tokens[1])
             args    == Tail(tokens)
         IN  IF sub \notin applet.subcommands
             THEN MatchErr(applet, "InvalidSubcommand")
             ELSE IF sub = HelpCommand
             THEN IF args = << >>
                     \/ (Len(args) = 1 /\ WordName(args[1]) \in applet.subcommands)
                  THEN MatchErr(applet, "DisplayHelp")
                  ELSE MatchErr(applet, "InvalidSubcommand")
             ELSE IF sub = "t"
             THEN IF Len(args) = 0 THEN MatchErr(applet, "MissingRequiredArgument")
                  ELSE IF Len(args) = 1 THEN MatchOk(applet, sub, args)
                  ELSE MatchErr(applet, "UnknownArgument")
             ELSE IF args = << >> THEN MatchOk(applet, sub, args)
                  ELSE MatchErr(applet, "UnknownArgument")

\* The decoded command, SimpleCli.
NoCli == [variant |-> "none", name |-> << >>]
Test(name) == [variant |-> "Test", name |-> name]
Clear == [variant |-> "Clear", name |-> << >>]
PanicCmd == [variant |-> "Panic", name |-> << >>]

\* C::from_arg_matches: a subcommand that is no variant of SimpleCli does not
\* decode.
FromArgMatches(matches) ==
    IF matches.subcommand = "t" /\ Len(matches.args) = 1
    THEN [ok |-> TRUE, cli |-> Test(matches.args[1]), kind |-> "none"]
    ELSE IF matches.subcommand = "c"
    THEN [ok |-> TRUE, cli |-> Clear, kind |-> "none"]
    ELSE IF matches.subcommand = "p"
    THEN [ok |-> TRUE, cli |-> PanicCmd, kind |-> "none"]
    ELSE IF matches.subcommand = "none"
    THEN [ok |-> FALSE, cli |-> NoCli, kind |-> "MissingSubcommand"]
    ELSE [ok |-> FALSE, cli |-> NoCli, kind |-> "InvalidSubcommand"]

\* What a handler may do to the grammar it is lent (ExecutionContext.command
\* is a public &mut Command): nothing, add a subcommand, or take the command
\* out of the reference (the first half of rebuilding it with clap's
\* consuming builder methods) and not put one back.
Mutations == {"none", "add", "take"}

Mutate(cmd, m) ==
    IF m = "add"
    THEN [cmd EXCEPT !.subcommands = @ \cup {ExtraCommand}]
    ELSE IF m = "take"
    THEN DefaultCommand
    ELSE cmd

\* --------------------------------------------------------- line source

\* reedline's read_line: io::Result<Signal>
Signals ==
    {[tag |-> "Success", text |-> l] : l \in Lines}
    \cup {[tag |-> "CtrlC", text |-> << >>], [tag |-> "CtrlD", text |-> << >>]}
    \cup {[tag |-> c, text |-> << >>] : c \in IoCauses}

NoSignal == "none"

\* Mutant of Classify: the Interrupt and EOF arms exchanged.
ClassifySwapped(tag) ==
    IF tag = "CtrlC" THEN EOF
    ELSE IF tag = "CtrlD" THEN Interrupt
    ELSE Io(tag)

\* The arms of read_with_command for the signals that carry no line.
Classify(tag) ==
    IF tag = "CtrlC" THEN Interrupt
    ELSE IF tag = "CtrlD" THEN EOF
    ELSE Io(tag)

\* ------------------------------------------------------- error policies

\* Mutant of DefaultErrorHandler: a panic is logged and the loop goes on.
DefaultErrorHandlerPanicContinues(error) ==
    IF error.variant \in {"Interrupt", "EOF"} THEN Err(error)
    ELSE IF error.variant = "Io" THEN Err(error)
    ELSE Ok

\* Mutant of DefaultErrorHandler: an interrupt or end of input is logged and
\* the loop goes on.
DefaultErrorHandlerInterruptContinues(error) ==
    IF error.variant \in {"Panic", "Io"} THEN Err(error)
    ELSE Ok

\* Mutant of DefaultErrorHandler: a parse error ends the loop.
DefaultErrorHandlerParseFatal(error) ==
    IF error.variant \in {"Interrupt", "EOF", "Parse", "Panic", "Io"} THEN Err(error)
    ELSE Ok

\* default_error_handler
DefaultErrorHandler(error) ==
    IF error.variant \in {"Interrupt", "EOF"} THEN Err(error)
    ELSE IF error.variant = "Clap" THEN Ok
    ELSE IF error.variant = "Parse" THEN Ok
    ELSE IF error.variant = "Panic" THEN Err(error)
    ELSE IF error.variant = "Io" THEN Err(error)
    ELSE Ok

\* The policies read_loop is called with: the default one, or any other
\* function of the error, which may continue, or terminate with the error it
\* was given or with another one.
Policies == {"default", "custom"}
NoPolicy == "none"

HandleError(p, error) ==
    IF p = "default" THEN {DefaultErrorHandler(error)}
    ELSE {Ok, Err(error), Err(Interrupt)}

\* Mutant of LoopExit: the loop ends after the first error, whatever the
\* policy returned.
LoopExitAlways(decision) == TRUE

\* Mutant of LoopExit: the policy's Err is dropped and the loop goes on.
LoopExitNever(decision) == FALSE

\* read_loop's `if let Err(err) = handle_error(err) { return Err(err) }`
LoopExit(decision) == ~decision.ok

\* Mutant of NeedsPolicy: every outcome, Ok too, goes to the policy.
NeedsPolicyAlways(result) == TRUE

\* read_loop's match on the value of read_with_command: the Err arm is the
\* one that calls handle_error.
NeedsPolicy(result) == ~result.ok

\* Result<(), Err>, what on_command returns
HandlerOk == [ok |-> TRUE, e |-> ""]
HandlerErr(e) == [ok |-> FALSE, e |-> e]
NoHandlerResult == [ok |-> FALSE, e |-> ""]

HandlerResults == {HandlerOk} \cup {HandlerErr(e) : e \in ExecErrors}

\* Mutant of MapErr: the handler's error value is replaced by a fixed one.
MapErrLosesCause(r) == IF r.ok THEN Ok ELSE Err(ExecutionError("e1"))

\* .map_err(|err| ReplError::ExecutionError(err))
MapErr(r) == IF r.ok THEN Ok ELSE Err(ExecutionError(r.e))

\* Mutant of ParseFailure: the clap error goes through From<ClapError>.
ParseFailureAsClap(kind) == Err(Clap(kind))

\* Mutant of ParseFailure: the failure is dropped.
ParseFailureSwallowed(kind) == Ok

\* The arms of execute_command for a failed match and a failed decode.
ParseFailure(kind) == Err(Parse(kind))

\* ---------------------------------------------------------------- state

VARIABLES
    command,      \* ReplContext.command, the canonical template
    api,          \* "idle", "read", "read_loop", "returned" (read_loop returned)
    pc,           \* position inside the running call
    policy,       \* handle_error of the running read_loop
    clone,        \* the grammar clone of the running read / read_loop
    buffer,       \* the line of the current iteration
    context,      \* TRUE while an ExecutionContext exists
    cli,          \* the command passed to on_command in this iteration
    res,          \* the value of read_with_command
    ret,          \* the value read_loop returned
    reads,        \* read_line calls so far
    sig,          \* the tag of the signal of the current iteration
    snap,         \* the grammar clone as it was when the iteration started
    dispatched,   \* execute_command was called in this iteration
    calls,        \* on_command calls in this iteration
    handlerRes,   \* what on_command returned in this iteration
    panicked,     \* the payload on_command panicked with in this iteration
    iterPolicy,   \* handle_error calls for this iteration's outcome
    policyArg,    \* the error last given to an error policy
    policyRes,    \* what that policy returned
    terminated,   \* a policy of read_loop has returned Err
    errOutcomes,  \* iterations of read_loop that ended in an Err, so far
    policyCalls,  \* handle_error calls of read_loop, so far
    prevPanic,    \* the iteration before this one, of the same loop, panicked
    liveClones,   \* grammar clones made and not yet dropped
    prevReadDirty \* the last read call that returned had changed its clone

vars == <<command, api, pc, policy, clone, buffer, context, cli, res, ret, reads,
          sig, snap, dispatched, calls, handlerRes, panicked, iterPolicy,
          policyArg, policyRes, terminated, errOutcomes, policyCalls,
          prevPanic, liveClones, prevReadDirty>>

totals == <<errOutcomes, policyCalls>>

iterVars == <<sig, snap, dispatched, calls, handlerRes, panicked, iterPolicy>>

\* ReplContext::new
Init ==
    /\ command = New
    /\ api = "idle"
    /\ pc = "idle"
    /\ policy = NoPolicy
    /\ clone = NoCommand
    /\ buffer = << >>
    /\ context = FALSE
    /\ cli = NoCli
    /\ res = NoResult
    /\ ret = NoResult
    /\ reads = 0
    /\ sig = NoSignal
    /\ snap = NoCommand
    /\ dispatched = FALSE
    /\ calls = 0
    /\ handlerRes = NoHandlerResult
    /\ panicked = NoPayload
    /\ iterPolicy = 0
    /\ policyArg = NoError
    /\ policyRes = NoResult
    /\ terminated = FALSE
    /\ errOutcomes = 0
    /\ policyCalls = 0
    /\ prevPanic = FALSE
    /\ liveClones = 0
    /\ prevReadDirty = FALSE

\* read_loop is entered with handle_error = p: the grammar is cloned once,
\* before the loop.
ReadLoopWith(p) ==
    /\ UNCHANGED prevReadDirty
    /\ prevPanic' = FALSE
    /\ UNCHANGED totals
    /\ api = "idle"
    /\ policy' = p
    /\ api' = "read_loop"
    /\ pc' = "read_line"
    /\ clone' = command
    /\ liveClones' = liveClones + 1
    /\ policyArg' = NoError
    /\ policyRes' = NoResult
    /\ res' = NoResult
    /\ sig' = NoSignal
    /\ snap' = NoCommand
    /\ dispatched' = FALSE
    /\ calls' = 0
    /\ handlerRes' = NoHandlerResult
    /\ panicked' = NoPayload
    /\ iterPolicy' = 0
    /\ UNCHANGED <<command, buffer, context, cli, ret, reads, terminated>>

CallReadLoop == \E p \in Policies : ReadLoopWith(p)

\* read is entered: the grammar is cloned for this call.
CallRead ==
    /\ UNCHANGED prevReadDirty
    /\ prevPanic' = FALSE
    /\ UNCHANGED totals
    /\ api = "idle"
    /\ api' = "read"
    /\ pc' = "read_line"
    /\ clone' = command
    /\ liveClones' = liveClones + 1
    /\ policyArg' = NoError
    /\ policyRes' = NoResult
    /\ res' = NoResult
    /\ sig' = NoSignal
    /\ snap' = NoCommand
    /\ dispatched' = FALSE
    /\ calls' = 0
    /\ handlerRes' = NoHandlerResult
    /\ panicked' = NoPayload
    /\ iterPolicy' = 0
    /\ UNCHANGED <<command, policy, buffer, context, cli, ret, reads, terminated>>

\* read_with_command up to the match on the signal: a line goes on to the
\* dispatcher inside the panic boundary, any other signal is the result.
ReadLine ==
    /\ UNCHANGED prevReadDirty
    /\ UNCHANGED liveClones
    /\ UNCHANGED totals
    /\ pc = "read_line"
    /\ reads < MaxReads
    /\ \E s \in Signals :
        /\ sig' = s.tag
        /\ IF s.tag = "Success"
           THEN /\ buffer' = s.text
                /\ res' = NoResult
                /\ pc' = "execute_command"
           ELSE /\ buffer' = << >>
                /\ res' = Err(Classify(s.tag))
                /\ pc' = "result"
    /\ reads' = reads + 1
    /\ prevPanic' = (api = "read_loop" /\ panicked # NoPayload)
    /\ snap' = clone
    /\ dispatched' = FALSE
    /\ calls' = 0
    /\ handlerRes' = NoHandlerResult
    /\ panicked' = NoPayload
    /\ iterPolicy' = 0
    /\ cli' = NoCli
    /\ UNCHANGED <<command, api, policy, clone, context, ret, policyArg, policyRes,
                   terminated>>

\* execute_command up to the call of the handler.
ExecuteCommand ==
    /\ UNCHANGED prevReadDirty
    /\ UNCHANGED liveClones
    /\ UNCHANGED prevPanic
    /\ UNCHANGED totals
    /\ pc = "execute_command"
    /\ dispatched' = TRUE
    /\ IF IsEmpty(buffer)
       THEN /\ res' = Ok
            /\ pc' = "result"
            /\ UNCHANGED <<clone, cli, context, calls>>
       ELSE LET m == TryGetMatchesFromMut(clone, SplitWhitespace(buffer))
                d == FromArgMatches(m.matches)
            IN  /\ clone' = m.command
                /\ IF ~m.ok
                   THEN /\ res' = ParseFailure(m.kind)
                        /\ pc' = "result"
                        /\ UNCHANGED <<cli, context, calls>>
                   ELSE IF ~d.ok
                   THEN /\ res' = ParseFailure(d.kind)
                        /\ pc' = "result"
                        /\ UNCHANGED <<cli, context, calls>>
                   ELSE /\ cli' = d.cli
                        /\ context' = TRUE
                        /\ calls' = calls + 1
                        /\ pc' = "on_command"
                        /\ UNCHANGED res
    /\ UNCHANGED <<command, api, policy, buffer, ret, reads, sig, snap, handlerRes,
                   panicked, iterPolicy, policyArg, policyRes, terminated>>

\* Mutant of OnCommandReturn: the context borrows the canonical template, so
\* the handler's changes land in it.
OnCommandReturnOnTemplate ==
    /\ UNCHANGED prevReadDirty
    /\ UNCHANGED liveClones
    /\ UNCHANGED prevPanic
    /\ UNCHANGED totals
    /\ pc = "on_command"
    /\ \E m \in Mutations, r \in HandlerResults :
        /\ command' = Mutate(command, m)
        /\ handlerRes' = r
        /\ res' = MapErr(r)
    /\ context' = FALSE
    /\ pc' = "result"
    /\ UNCHANGED <<clone, api, policy, buffer, cli, ret, reads, sig, snap,
                   dispatched, calls, panicked, iterPolicy, policyArg, policyRes,
                   terminated>>

\* on_command returns; map_err wraps its error; the context is dropped.
OnCommandReturn ==
    /\ UNCHANGED prevReadDirty
    /\ UNCHANGED liveClones
    /\ UNCHANGED prevPanic
    /\ UNCHANGED totals
    /\ pc = "on_command"
    /\ \E m \in Mutations, r \in HandlerResults :
        /\ clone' = Mutate(clone, m)
        /\ handlerRes' = r
        /\ res' = MapErr(r)
    /\ context' = FALSE
    /\ pc' = "result"
    /\ UNCHANGED <<command, api, policy, buffer, cli, ret, reads, sig, snap,
                   dispatched, calls, panicked, iterPolicy, policyArg, policyRes,
                   terminated>>

\* Mutant of OnCommandPanic: no catch_unwind, the panic unwinds through
\* read_with_command and its caller.
OnCommandPanicUnwinds ==
    /\ UNCHANGED prevReadDirty
    /\ UNCHANGED liveClones
    /\ UNCHANGED prevPanic
    /\ UNCHANGED totals
    /\ pc = "on_command"
    /\ \E m \in Mutations, p \in Payloads :
        /\ clone' = Mutate(clone, m)
        /\ panicked' = p
    /\ context' = FALSE
    /\ api' = "unwound"
    /\ pc' = "unwound"
    /\ UNCHANGED <<command, policy, buffer, cli, res, ret, reads, sig, snap,
                   dispatched, calls, handlerRes, iterPolicy, policyArg, policyRes,
                   terminated>>

\* on_command panics; the unwinding drops the context and stops at
\* catch_unwind, whose Err becomes ReplError::Panic.
OnCommandPanic ==
    /\ UNCHANGED prevReadDirty
    /\ UNCHANGED liveClones
    /\ UNCHANGED prevPanic
    /\ UNCHANGED totals
    /\ pc = "on_command"
    /\ \E m \in Mutations, p \in Payloads :
        /\ clone' = Mutate(clone, m)
        /\ panicked' = p
        /\ res' = Err(Panic(p))
    /\ context' = FALSE
    /\ pc' = "result"
    /\ UNCHANGED <<command, api, policy, buffer, cli, ret, reads, sig, snap,
                   dispatched, calls, handlerRes, iterPolicy, policyArg, policyRes,
                   terminated>>

\* Mutant of ReadReturn: read works on the template, so what the call did to
\* the grammar stays in self.command.
ReadReturnWritesBack ==
    /\ prevReadDirty' = (clone # command)
    /\ UNCHANGED prevPanic
    /\ UNCHANGED totals
    /\ api = "read"
    /\ pc = "result"
    /\ api' = "idle"
    /\ pc' = "idle"
    /\ command' = clone
    /\ clone' = NoCommand
    /\ liveClones' = liveClones - 1
    /\ buffer' = << >>
    /\ cli' = NoCli
    /\ UNCHANGED <<policy, context, res, ret, reads, policyArg, policyRes,
                   terminated>>
    /\ UNCHANGED iterVars

\* Mutant of ReadReturn: the clone of the call is kept alive.
ReadReturnLeaksClone ==
    /\ prevReadDirty' = (clone # command)
    /\ UNCHANGED prevPanic
    /\ UNCHANGED totals
    /\ api = "read"
    /\ pc = "result"
    /\ api' = "idle"
    /\ pc' = "idle"
    /\ buffer' = << >>
    /\ cli' = NoCli
    /\ UNCHANGED <<command, policy, clone, liveClones, context, res, ret, reads,
                   policyArg, policyRes, terminated>>
    /\ UNCHANGED iterVars

\* read returns the value of read_with_command; its clone is dropped.
ReadReturn ==
    /\ prevReadDirty' = (clone # command)
    /\ UNCHANGED prevPanic
    /\ UNCHANGED totals
    /\ api = "read"
    /\ pc = "result"
    /\ api' = "idle"
    /\ pc' = "idle"
    /\ clone' = NoCommand
    /\ liveClones' = liveClones - 1
    /\ buffer' = << >>
    /\ cli' = NoCli
    /\ UNCHANGED <<command, policy, context, res, ret, reads, policyArg,
                   policyRes, terminated>>
    /\ UNCHANGED iterVars

\* The body of read_loop's loop after read_with_command: Ok goes round, an
\* error goes to handle_error, whose Err is returned; returning drops the
\* loop's clone.
LoopStep ==
    /\ UNCHANGED prevReadDirty
    /\ UNCHANGED prevPanic
    /\ api = "read_loop"
    /\ pc = "result"
    /\ buffer' = << >>
    /\ cli' = NoCli
    /\ errOutcomes' = IF res.ok THEN errOutcomes ELSE errOutcomes + 1
    /\ IF ~NeedsPolicy(res)
       THEN /\ pc' = "read_line"
            /\ UNCHANGED <<api, ret, iterPolicy, policyArg, policyRes, terminated,
                           policyCalls, clone, liveClones>>
       ELSE \E d \in HandleError(policy, res.err) :
            /\ iterPolicy' = iterPolicy + 1
            /\ policyCalls' = policyCalls + 1
            /\ policyArg' = res.err
            /\ policyRes' = d
            /\ terminated' = ~d.ok
            /\ IF ~LoopExit(d)
               THEN /\ pc' = "read_line"
                    /\ UNCHANGED <<api, ret, clone, liveClones>>
               ELSE /\ ret' = d
                    /\ api' = "returned"
                    /\ pc' = "returned"
                    /\ clone' = NoCommand
                    /\ liveClones' = liveClones - 1
    /\ UNCHANGED <<command, policy, context, res, reads, sig, snap,
                   dispatched, calls, handlerRes, panicked>>

\* The host calls default_error_handler itself (it is a public function).
CallDefaultErrorHandler ==
    /\ UNCHANGED prevReadDirty
    /\ UNCHANGED liveClones
    /\ UNCHANGED prevPanic
    /\ UNCHANGED totals
    /\ api = "idle"
    /\ \E e \in ReplErrors :
        /\ policyArg' = e
        /\ policyRes' = DefaultErrorHandler(e)
    /\ UNCHANGED <<command, api, pc, policy, clone, buffer, context, cli, res, ret,
                   reads, terminated>>
    /\ UNCHANGED iterVars

Next ==
    \/ CallReadLoop
    \/ CallRead
    \/ ReadLine
    \/ ExecuteCommand
    \/ OnCommandReturn
    \/ OnCommandPanic
    \/ ReadReturn
    \/ LoopStep
    \/ CallDefaultErrorHandler

Spec == Init /\ [][Next]_vars

\* The runs in which the host calls read_loop with default_error_handler,
\* with their progress. The program is one thread that keeps running: every step of its
\* own is taken once it is due, and a handler that was called comes back, by
\* return or by panic. The line source and the host are not obliged to do
\* anything.
CallReadLoopDefault == ReadLoopWith("default")

LiveNext ==
    \/ CallReadLoopDefault
    \/ ReadLine
    \/ ExecuteCommand
    \/ OnCommandReturn
    \/ OnCommandPanic
    \/ LoopStep

LiveSpec ==
    /\ Init /\ [][LiveNext]_vars
    /\ WF_vars(ExecuteCommand)
    /\ WF_vars(OnCommandReturn \/ OnCommandPanic)
    /\ WF_vars(LoopStep)

TypeOK ==
    /\ api \in {"idle", "read", "read_loop", "returned"}
    /\ pc \in {"idle", "read_line", "execute_command", "on_command", "result", "returned"}
    /\ buffer \in Lines
    /\ reads \in 0..MaxReads
    /\ context \in BOOLEAN

\* ---------------------------------------------------------------- claims

IsBlank(line) == \A i \in 1..Len(line) : IsWhitespace(line[i])

NonSuccessTags == {"CtrlC", "CtrlD"} \cup IoCauses

\* The match and the decode of the current line against the grammar clone as
\* the iteration found it.
MatchOf == TryGetMatchesFromMut(snap, SplitWhitespace(buffer))
DecodeOf == FromArgMatches(MatchOf.matches)

InLoop == api \in {"read_loop", "returned"}

\* The current iteration's outcome has been through read_loop's match.
Routed == InLoop /\ sig # NoSignal /\ pc \in {"read_line", "returned"}

\* C1: when execute_command has run on a line that is empty or only
\* whitespace, the handler was not called and the result is Ok.
C1_BlankLineIsNoOp ==
    (dispatched /\ pc = "result" /\ IsBlank(buffer)) => (calls = 0 /\ res = Ok)

\* C2: when the match or the decode of the line fails, the handler is not
\* called in that dispatch and the dispatch returns an error, never Ok.
C2_FailedParseSkipsHandler ==
    (dispatched /\ ~IsEmpty(buffer) /\ (~MatchOf.ok \/ ~DecodeOf.ok)) =>
        /\ calls = 0
        /\ pc = "result"
        /\ ~context
        /\ ~res.ok
        /\ res.err \in ReplErrors

C2_Witness ==
    /\ dispatched /\ pc = "result" /\ ~IsEmpty(buffer)
    /\ MatchOf.ok /\ ~DecodeOf.ok
    /\ calls = 0
    /\ res = Err(Parse("InvalidSubcommand"))

\* C3: a handler's panic stops at read_with_command: the call's value is
\* Err(Panic(payload)) with the handler's payload, and read_loop hands that
\* error to the error policy once, as it does any other error.
C3_PanicIsCaught ==
    panicked # NoPayload =>
        /\ pc \in {"result", "idle", "read_line", "returned"}
        /\ api \in {"read", "read_loop", "idle", "returned"}
        /\ res = Err(Panic(panicked))
        /\ (InLoop /\ pc = "result") => iterPolicy = 0
        /\ Routed => (iterPolicy = 1 /\ policyArg = Panic(panicked))

C3_Witness ==
    /\ api = "read_loop" /\ pc = "read_line"
    /\ panicked = "p2"
    /\ res = Err(Panic("p2"))
    /\ iterPolicy = 1 /\ policyArg = Panic("p2") /\ policyRes = Ok

\* C4: in read_loop, every iteration starts with a grammar clone equal to the
\* canonical template.
C4_FreshClonePerIteration ==
    (api = "read_loop" /\ sig # NoSignal) => snap = command

\* C5: the canonical template keeps the value it was constructed with.
C5_TemplateNeverMutated == command = New

C5_Witness ==
    /\ pc = "result"
    /\ handlerRes # NoHandlerResult
    /\ ExtraCommand \in clone.subcommands
    /\ clone.name = ""
    /\ command = New

\* C6: default_error_handler returns Err with the error it was given for
\* Interrupt, EOF, Io and Panic, and Ok for a grammar or decode error (Parse,
\* Clap) and for ExecutionError.
C6_DefaultPolicyTable ==
    (policyArg # NoError /\ policy # "custom") =>
        /\ policyArg.variant \in {"Interrupt", "EOF", "Io", "Panic"}
              => policyRes = Err(policyArg)
        /\ policyArg.variant \in {"Parse", "Clap", "ExecutionError"}
              => policyRes = Ok

C6_Witness ==
    /\ policy = "default" /\ api = "returned"
    /\ policyArg = Panic("p1")
    /\ policyRes = Err(Panic("p1"))

\* C7: once the error policy has returned Err, read_loop reads no line, calls
\* neither the dispatcher, the handler nor the policy again, and has returned
\* the policy's Err to its caller.
C7_TerminatedIsAbsorbing ==
    /\ [][terminated =>
            /\ reads' = reads
            /\ dispatched' = dispatched
            /\ calls' = calls
            /\ iterPolicy' = iterPolicy
            /\ policyArg' = policyArg
            /\ ret' = ret]_vars
    /\ [](terminated => (api = "returned" /\ ~ret.ok /\ ret = policyRes))

C7_Witness ==
    /\ terminated /\ api = "returned"
    /\ reads < MaxReads
    /\ ret = Err(policyArg)

\* C8: for a signal other than Success the iteration calls neither the
\* dispatcher nor the handler, its result is Interrupt for CtrlC, EOF for
\* CtrlD and Io(cause) for an I/O failure, and read_loop gives that error to
\* the policy exactly once.
C8_SignalsAreRouted ==
    sig \in NonSuccessTags =>
        LET expected == IF sig = "CtrlC" THEN ReplError("Interrupt", "")
                        ELSE IF sig = "CtrlD" THEN ReplError("EOF", "")
                        ELSE ReplError("Io", sig)
        IN  /\ ~dispatched
            /\ calls = 0
            /\ res = Err(expected)
            /\ (InLoop /\ pc = "result") => iterPolicy = 0
            /\ Routed => (iterPolicy = 1 /\ policyArg = expected)

C8_Witness ==
    /\ api = "returned" /\ sig = "CtrlC"
    /\ ~dispatched /\ calls = 0
    /\ iterPolicy = 1 /\ policyArg = Interrupt
    /\ ret = Err(Interrupt)

\* C9 as stated: whatever the error policy, a line whose outcome is a help or
\* version display leaves the loop running.
C9_HelpRecoverableAnyPolicy ==
    (Routed /\ iterPolicy = 1 /\ policyArg.variant \in {"Parse", "Clap"}
        /\ policyArg.data \in HelpKinds) => api = "read_loop"

\* C9 amended: under default_error_handler, a line whose outcome is a help or
\* version display leaves the loop running.
C9_HelpRecoverableDefaultPolicy ==
    (Routed /\ iterPolicy = 1 /\ policy = "default"
        /\ policyArg.variant \in {"Parse", "Clap"}
        /\ policyArg.data \in HelpKinds) => (api = "read_loop" /\ ~terminated)

C9_Witness ==
    /\ Routed /\ iterPolicy = 1 /\ policy = "default"
    /\ policyArg = Parse("DisplayHelp")
    /\ api = "read_loop" /\ pc = "read_line"

\* C10: for a non-empty line that matches and decodes, the handler is called
\* exactly once, with the decoded command, and when it returns the dispatch
\* result is Ok for its Ok and ExecutionError(e) for its Err(e).
C10_HandlerResultIsDispatchResult ==
    (dispatched /\ ~IsEmpty(buffer) /\ MatchOf.ok /\ DecodeOf.ok) =>
        /\ calls = 1
        /\ cli = DecodeOf.cli
        /\ (pc = "result" /\ panicked = NoPayload) =>
              /\ handlerRes \in HandlerResults
              /\ handlerRes.ok => res = Ok
              /\ ~handlerRes.ok => res = Err(ReplError("ExecutionError", handlerRes.e))

C10_Witness ==
    /\ dispatched /\ pc = "result"
    /\ buffer = <<"t", " ", "x">>
    /\ calls = 1
    /\ cli = Test(<<"x">>)
    /\ handlerRes = HandlerErr("e2")
    /\ res = Err(ExecutionError("e2"))

\* C11: under default_error_handler, an iteration in which the handler
\* panicked ends read_loop, which returns Err(Panic(payload)) with that
\* panic's payload; so the loop never runs on past a panic.
C11_DefaultPolicyPanicTerminates ==
    (InLoop /\ policy = "default" /\ panicked # NoPayload /\ pc # "result") =>
        /\ api = "returned"
        /\ pc = "returned"
        /\ terminated
        /\ ret = Err(ReplError("Panic", panicked))

C11_Witness ==
    /\ policy = "default" /\ api = "returned"
    /\ reads = 2
    /\ panicked = "p2"
    /\ ret = Err(Panic("p2"))

\* C12: a line that matches the grammar and fails to decode gets an error
\* variant other than the one a failed match gets.
C12_DecodeErrorIsDistinctVariant ==
    (dispatched /\ pc = "result" /\ ~IsEmpty(buffer) /\ MatchOf.ok /\ ~DecodeOf.ok) =>
        \A k \in ErrorKinds : res.err.variant # ParseFailure(k).err.variant

\* C13: read_loop calls the error policy once for an iteration that ended in
\* an Err and not at all for one that ended in Ok; at every moment the
\* number of policy calls is the number of iterations that ended in an Err.
C13_OnePolicyCallPerError ==
    InLoop =>
        /\ policyCalls = errOutcomes
        /\ pc = "result" => iterPolicy = 0
        /\ Routed => iterPolicy = (IF res.ok THEN 0 ELSE 1)

C13_Witness ==
    /\ Routed /\ api = "read_loop"
    /\ reads = 3
    /\ res = Ok /\ iterPolicy = 0
    /\ errOutcomes = 2 /\ policyCalls = 2

\* A line that matches and decodes against the canonical template.
ValidLine(line) ==
    LET m == TryGetMatchesFromMut(command, SplitWhitespace(line))
    IN  ~IsEmpty(line) /\ m.ok /\ FromArgMatches(m.matches).ok

\* C14: after an iteration whose panic the policy continued, a valid line
\* whose handler neither panics nor fails is dispatched to the handler and
\* the iteration's result is Ok.
C14_NoPanicResidue ==
    (api = "read_loop" /\ prevPanic /\ sig = "Success" /\ pc = "result"
        /\ ValidLine(buffer) /\ panicked = NoPayload
        /\ handlerRes \in {NoHandlerResult, HandlerOk}) =>
            /\ calls = 1
            /\ handlerRes = HandlerOk
            /\ res = Ok

\* C15: at most one grammar clone is live, and only inside a running read or
\* read_loop; an ExecutionContext exists exactly while the one handler call
\* of the iteration runs, which is after a successful match and decode.
C15_OneContextOneClone ==
    /\ liveClones \in {0, 1}
    /\ liveClones = 1 <=> api \in {"read", "read_loop"}
    /\ liveClones = 1 <=> clone # NoCommand
    /\ context <=> pc = "on_command"
    /\ context => (calls = 1 /\ MatchOf.ok /\ DecodeOf.ok /\ cli = DecodeOf.cli)

C15_Witness ==
    /\ api = "read" /\ reads = 2
    /\ pc = "on_command" /\ context
    /\ liveClones = 1
    /\ cli = Clear

\* C16: under default_error_handler, once the line source has reported
\* Interrupt, end of input or an I/O failure, read_loop reads no further line
\* and eventually returns, with that signal's error.
C16_SignalTerminatesDefaultLoop ==
    /\ [][(InLoop /\ policy = "default" /\ sig \in NonSuccessTags)
            => reads' = reads]_vars
    /\ [](InLoop /\ policy = "default" /\ sig \in NonSuccessTags /\ pc # "result"
            => (api = "returned" /\ ret = res /\ ~ret.ok))
    /\ (api = "read_loop" /\ policy = "default" /\ sig \in NonSuccessTags)
            ~> (api = "returned")

C16_Witness ==
    /\ api = "returned" /\ policy = "default"
    /\ sig = "CtrlD" /\ reads = 2
    /\ ret = Err(EOF)

\* C17: read_loop returns only what the error policy returned as Err: its
\* value is never Ok, and it has not returned unless a policy call returned
\* Err (so under a policy that always continues it does not return).
C17_ReadLoopReturnsOnlyPolicyErr ==
    /\ api = "returned" =>
        /\ ~ret.ok
        /\ ret.err \in ReplErrors
        /\ ret = policyRes
        /\ ~policyRes.ok
        /\ iterPolicy = 1
        /\ policyCalls >= 1
    /\ api # "returned" => ret = NoResult

C17_Witness ==
    /\ api = "returned" /\ policy = "custom"
    /\ reads = 3
    /\ errOutcomes = 3
    /\ policyArg = ExecutionError("e1")
    /\ ret = Err(Interrupt)

\* C18: no call of read or iteration of read_loop produces ReplError::Clap; a
\* failed match and a failed decode are ReplError::Parse, and that is what
\* the policy is given.
C18_ClapVariantNeverProduced ==
    /\ res.err.variant # "Clap"
    /\ ret.err.variant # "Clap"
    /\ InLoop => policyArg.variant # "Clap"
    /\ (dispatched /\ ~IsEmpty(buffer) /\ (~MatchOf.ok \/ ~DecodeOf.ok))
          => res.err.variant = "Parse"
    /\ (Routed /\ dispatched /\ calls = 0 /\ ~res.ok)
          => (policyArg = res.err /\ policyArg.variant = "Parse")

C18_Witness ==
    /\ Routed /\ api = "read_loop" /\ policy = "default"
    /\ dispatched /\ calls = 0
    /\ res = Err(Parse("MissingRequiredArgument"))
    /\ policyArg = Parse("MissingRequiredArgument")
    /\ policyRes = Ok

\* C19: every read call starts from a clone equal to the canonical template
\* as constructed, whatever earlier read calls did to their clones.
C19_ReadClonesTemplateEachCall ==
    (api = "read" /\ sig # NoSignal) => (snap = command /\ snap = New)

C19_Witness ==
    /\ api = "read" /\ sig = "Success" /\ pc = "result"
    /\ prevReadDirty
    /\ snap = New
    /\ clone # New
    /\ reads = 2

====
